---- MODULE Spec2Model ----
(***************************************************************************)
(* Model of src/app/parser-instagram/index.ts: the main routine (browser   *)
(* acquisition, login, batch run, deferred release), computeForLink (one   *)
(* page per link, classification, authenticated in-page fetch, media       *)
(* normalization) and the processMedia normalizer.                         *)
(*                                                                         *)
(* JSON values are encoded as follows.  An optional field is a sequence    *)
(* of length 0 (absent, undefined, null: falsy) or 1 (present).  A raw     *)
(* media record is [pk, video_versions, image_versions2, carousel_media];  *)
(* video_versions, when present, is the list of the variants' urls,        *)
(* image_versions2, when present, is the list of its candidates' urls,     *)
(* carousel_media, when present, is the list of child records.             *)
(***************************************************************************)
EXTENDS Naturals, Sequences, FiniteSets, TLC

VARIABLES
    mainPc,      \* position of the main routine (radash.defer callback, l.57-265)
    browser,     \* "none" | "connected" | "launched" | "closed" | "disconnected"
    mainDefer,   \* callbacks registered with the outer defer, in order
    mainError,   \* Absent, or Some(reason) once the main routine has thrown
    releases,    \* number of calls of the browser's release made so far
    served,      \* per link: what the network serves for it (fixed input)
    runnerPc,    \* batch runner: "idle" | "running" | "completed"
    pc,          \* per link: position of its computeForLink invocation
    opened,      \* per link: number of pages browser.newPage() returned
    closes,      \* per link: number of page.close() calls
    closed,      \* per link: number of page.close() calls that have completed
    fetches,     \* per link: endpoints requested by in-page fetch, in order
    mediaArray,  \* per link: the `media` array of its invocation (l.223)
    pending,     \* per link: result of the body, held while deferred callbacks run
    outcome,     \* per link: the outcome the batch runner recorded
    normIn,      \* normalizer harness: the raw media batch
    normOut      \* normalizer harness: the result of the flattening loop

vars == <<mainPc, browser, mainDefer, mainError, releases, served, runnerPc, pc, opened,
          closes, closed, fetches, mediaArray, pending, outcome, normIn, normOut>>

mainVars == <<mainPc, browser, mainDefer, mainError, releases>>
linkVars == <<pc, opened, closes, closed, fetches, mediaArray, pending>>
normVars == <<normIn, normOut>>

----------------------------------------------------------------------------
(* Optional values *)

Absent == <<>>

Some(x) == <<x>>

Present(o) == Len(o) > 0

Get(o) == o[1]

----------------------------------------------------------------------------
(* Bounds *)

\* most raw media records (nodes of all trees together) in a normalizer input
MaxNodes == 3

\* most raw media records in the item list of one fetch response
MaxItems == 2

\* links in the batch beyond the concurrency window
ExtraLinks == 1

----------------------------------------------------------------------------
(* Raw media records *)

Rec(pk, vid, img, car) ==
    [pk |-> pk, video_versions |-> vid, image_versions2 |-> img, carousel_media |-> car]

VideoLists == {Absent, Some(<<"v1.mp4", "v2.mp4">>)}

ImageLists == {Absent, Some(<<"p1.jpg", "p2.jpg">>)}

RECURSIVE TreesOfSize(_), ForestsOfSize(_)

\* records with exactly n nodes (the record and all its descendants)
TreesOfSize(n) ==
    { Rec("1", v, i, c) :
        v \in VideoLists, i \in ImageLists,
        c \in (IF n = 1 THEN {Absent} ELSE {}) \cup { Some(f) : f \in ForestsOfSize(n - 1) } }

\* sequences of records with exactly n nodes in total
ForestsOfSize(n) ==
    IF n = 0 THEN { <<>> }
    ELSE UNION { { <<t>> \o f : t \in TreesOfSize(k), f \in ForestsOfSize(n - k) } : k \in 1..n }

Forests(n) == UNION { ForestsOfSize(k) : k \in 0..n }

----------------------------------------------------------------------------
(* processMedia, l.223-245 *)

Descriptor(type, url) == [type |-> type, url |-> url]

NormState(media, threw) == [media |-> media, threw |-> threw]

\* l.226-230: the video branch; [0].url of an empty list throws a TypeError
PushVideo(item, st) ==
    IF Len(Get(item.video_versions)) = 0
    THEN NormState(st.media, TRUE)
    ELSE NormState(Append(st.media, Descriptor("video", Head(Get(item.video_versions)))), FALSE)

\* l.231-235: the image branch; candidates[0].url of an empty list throws
PushPhoto(item, st) ==
    IF Len(Get(item.image_versions2)) = 0
    THEN NormState(st.media, TRUE)
    ELSE NormState(Append(st.media, Descriptor("photo", Head(Get(item.image_versions2)))), FALSE)

RECURSIVE Reverse(_)

Reverse(q) == IF Len(q) = 0 THEN <<>> ELSE Append(Reverse(Tail(q)), Head(q))

\* the children visited last to first
CarouselBackwards(children) == Reverse(children)

\* the order in which a carousel's children are visited (for ... of, l.237)
CarouselOrder(children) == children

RECURSIVE processMedia(_, _), ProcessAll(_, _)

\* the image test before the video test
processMediaImageFirst(item, st) ==
    IF st.threw THEN st
    ELSE IF Present(item.image_versions2) THEN PushPhoto(item, st)
    ELSE IF Present(item.video_versions) THEN PushVideo(item, st)
    ELSE IF Present(item.carousel_media)
         THEN ProcessAll(CarouselOrder(Get(item.carousel_media)), st)
    ELSE st

\* a record of none of the three shapes is an error
processMediaStrict(item, st) ==
    IF st.threw THEN st
    ELSE IF Present(item.video_versions) THEN PushVideo(item, st)
    ELSE IF Present(item.image_versions2) THEN PushPhoto(item, st)
    ELSE IF Present(item.carousel_media)
         THEN ProcessAll(CarouselOrder(Get(item.carousel_media)), st)
    ELSE NormState(st.media, TRUE)

\* l.225-241, with the accumulator `media` threaded through
processMedia(item, st) ==
    IF st.threw THEN st
    ELSE IF Present(item.video_versions) THEN PushVideo(item, st)
    ELSE IF Present(item.image_versions2) THEN PushPhoto(item, st)
    ELSE IF Present(item.carousel_media)
         THEN ProcessAll(CarouselOrder(Get(item.carousel_media)), st)
    ELSE st

\* the for ... of loops of l.237-239 and l.243-245
ProcessAll(items, st) ==
    IF Len(items) = 0 \/ st.threw THEN st
    ELSE ProcessAll(Tail(items), processMedia(Head(items), st))

\* l.223 and l.243-245: a fresh accumulator per invocation, then the loop
Normalize(rawMedia) == ProcessAll(rawMedia, NormState(<<>>, FALSE))

\* l.243-245: the loop pushing into the array `acc`
NormalizeInto(acc, rawMedia) == ProcessAll(rawMedia, NormState(acc, FALSE))

----------------------------------------------------------------------------
(* Outcomes of one computeForLink invocation *)

NoOutcome == [status |-> "none", reason |-> "", title |-> Absent, url |-> Absent, media |-> <<>>]

\* l.251-255: the value returned
Fulfilled(title, url, media) ==
    [status |-> "fulfilled", reason |-> "", title |-> title, url |-> url, media |-> media]

\* a thrown error, named by its message
Rejected(reason) ==
    [status |-> "rejected", reason |-> reason, title |-> Absent, url |-> Absent, media |-> <<>>]

\* l.160, l.185: `https://www.instagram.com${ path }`
SiteUrl(path) == Some(<<"https://www.instagram.com", path>>)

\* a || b || null of l.205: the empty string is falsy
FirstTruthy(a, b) == IF a # "" THEN Some(a) ELSE IF b # "" THEN Some(b) ELSE Absent

----------------------------------------------------------------------------
(* The body of computeForLink between its awaits, l.142-255 *)

\* the return value without the empty check
FinishUnchecked(title, url, norm) ==
    IF norm.threw THEN Rejected("TypeError") ELSE Fulfilled(title, url, norm.media)

\* l.247-255: the empty check and the return value
Finish(title, url, norm) ==
    IF norm.threw THEN Rejected("TypeError")
    ELSE IF Len(norm.media) = 0 THEN Rejected("No media found")
    ELSE Fulfilled(title, url, norm.media)

\* l.155: postData?.meta.title ?? null; reading .title of a missing meta throws
TitleThrows(details) ==
    Present(details.postData) /\ ~Present(Get(details.postData).meta)

PostTitle(details) ==
    IF Present(details.postData) THEN Get(Get(details.postData).meta).title ELSE Absent

\* the switch with its cases in the other order
BranchStoryFirst(details) ==
    IF Present(details.storyData) THEN "story"
    ELSE IF Present(details.postData) THEN "post"
    ELSE "default"

\* the switch without its default case
BranchNoDefault(details) ==
    IF Present(details.postData) THEN "post" ELSE "story"

\* l.158-221: switch (true) { case !!postData, case !!storyData, default }
Branch(details) ==
    IF Present(details.postData) THEN "post"
    ELSE IF Present(details.storyData) THEN "story"
    ELSE "default"

\* the endpoint of the in-page fetch of each branch, l.175 and l.202
Endpoint(branch) == IF branch = "post" THEN "media/info" ELSE "feed/reels_media"

\* l.178-180 and l.223-255: the post branch once the fetch has returned `data`
\* `acc` is the array `media` the loop pushes into
AfterPostFetch(details, data, acc) ==
    IF ~Present(data.items) THEN Rejected("TypeError")
    ELSE Finish(PostTitle(details), SiteUrl(Get(details.postData).url),
                NormalizeInto(acc, Get(data.items)))

\* the array `media` once the post branch has ended
PostAccumulated(data, acc) ==
    IF ~Present(data.items) THEN acc ELSE NormalizeInto(acc, Get(data.items)).media

\* l.207-209: lodash.get(data, `reels.${ userId }.items`, []).find(pk === id)
FindReel(items, id) ==
    IF \E k \in 1..Len(items) : items[k].pk = id
    THEN Some(items[CHOOSE k \in 1..Len(items) :
                     /\ items[k].pk = id
                     /\ \A j \in 1..(k - 1) : items[j].pk # id])
    ELSE Absent

\* l.205-212 and l.223-255: the story branch once the fetch has returned;
\* `reel` is data.reels[userId], whose .user is read before the items are
StoryRawMedia(reel, story) ==
    FindReel(IF Present(reel.items) THEN Get(reel.items) ELSE <<>>, story.initial_media_id)

AfterStoryFetch(details, data, acc) ==
    IF ~Present(data.reel) THEN Rejected("TypeError")
    ELSE LET reel  == Get(data.reel)
             story == Get(details.storyData)
         IN  Finish(FirstTruthy(reel.full_name, reel.username), SiteUrl(story.url),
                    NormalizeInto(acc, StoryRawMedia(reel, story)))

\* the array `media` once the story branch has ended
StoryAccumulated(details, data, acc) ==
    IF ~Present(data.reel) THEN acc
    ELSE NormalizeInto(acc, StoryRawMedia(Get(data.reel), Get(details.storyData))).media

----------------------------------------------------------------------------
(* What the network serves for a link: the outcome of each collaborator    *)
(* call of computeForLink.  An Absent result is a call that throws.        *)

Scenario(newPage, goto, details, postResp, storyResp) ==
    [newPage |-> newPage, goto |-> goto, details |-> details,
     postResp |-> postResp, storyResp |-> storyResp]

Details(postData, storyData) == [postData |-> postData, storyData |-> storyData]

PostData(meta) == [url |-> "/p/abc/", meta |-> meta, media_id |-> "123"]

StoryData == [url |-> "/stories/u1/99/", userId |-> "u1", initial_media_id |-> "99"]

Metas == {Absent, Some([title |-> Absent]), Some([title |-> Some("A post")])}

Reel(full_name, username, items) ==
    [full_name |-> full_name, username |-> username, items |-> items]

PhotoLeaf(pk) == Rec(pk, Absent, Some(<<"p1.jpg", "p2.jpg">>), Absent)

VideoLeaf(pk) == Rec(pk, Some(<<"v1.mp4", "v2.mp4">>), Some(<<"p1.jpg">>), Absent)

\* a record of unexpected shape: a video-variant list with no variant
MalformedLeaf(pk) == Rec(pk, Some(<<>>), Absent, Absent)

PostItemLists == Forests(MaxItems) \cup { <<MalformedLeaf("1")>> }

StoryRecords ==
    { Rec(pk, v, i, Absent) : pk \in {"99", "77"}, v \in VideoLists, i \in ImageLists }
      \cup { Rec("99", Absent, Absent, Some(<<PhotoLeaf("5"), VideoLeaf("6")>>)),
             MalformedLeaf("99") }

RECURSIVE SeqsUpTo(_, _)

SeqsUpTo(S, n) ==
    IF n = 0 THEN { <<>> }
    ELSE SeqsUpTo(S, n - 1) \cup { Append(q, x) : q \in { r \in SeqsUpTo(S, n - 1) : Len(r) = n - 1 }, x \in S }

PostResponses ==
    { Absent, Some([items |-> Absent]) } \cup { Some([items |-> Some(f)]) : f \in PostItemLists }

StoryResponses ==
    { Absent, Some([reel |-> Absent]) }
      \cup { Some([reel |-> Some(Reel(n, u, i))]) :
               n \in {"", "A B"}, u \in {"", "ab"},
               i \in {Absent} \cup { Some(q) : q \in SeqsUpTo(StoryRecords, MaxItems) } }

OkPostResp == Some([items |-> Some(<<PhotoLeaf("1")>>)])

OkStoryResp == Some([reel |-> Some(Reel("A B", "ab", Some(<<VideoLeaf("99")>>)))])

\* every page and response one link can meet
LinkScenarios ==
    { Scenario(FALSE, TRUE, Absent, Absent, Absent),
      Scenario(TRUE, FALSE, Absent, Absent, Absent),
      Scenario(TRUE, TRUE, Absent, Absent, Absent),
      Scenario(TRUE, TRUE, Some(Details(Absent, Absent)), OkPostResp, OkStoryResp) }
      \cup { Scenario(TRUE, TRUE, Some(Details(Some(PostData(m)), s)), r, OkStoryResp) :
               m \in Metas, s \in {Absent, Some(StoryData)}, r \in PostResponses }
      \cup { Scenario(TRUE, TRUE, Some(Details(Absent, Some(StoryData))), OkPostResp, r) :
               r \in StoryResponses }

\* the pages of a batch: one of each kind of result
Catalog ==
    << Scenario(TRUE, TRUE, Some(Details(Some(PostData(Some([title |-> Some("A post")]))), Absent)),
                OkPostResp, Absent),
       Scenario(TRUE, TRUE, Some(Details(Some(PostData(Some([title |-> Absent]))), Absent)),
                Some([items |-> Some(<<>>)]), Absent),
       Scenario(TRUE, TRUE, Some(Details(Absent, Some(StoryData))), Absent, OkStoryResp),
       Scenario(TRUE, TRUE, Some(Details(Absent, Absent)), Absent, Absent),
       Scenario(TRUE, FALSE, Absent, Absent, Absent),
       Scenario(TRUE, TRUE, Some(Details(Some(PostData(Some([title |-> Absent]))), Some(StoryData))),
                Absent, OkStoryResp),
       Scenario(FALSE, TRUE, Absent, Absent, Absent),
       Scenario(TRUE, TRUE, Some(Details(Some(PostData(Some([title |-> Absent]))), Absent)),
                Some([items |-> Some(<<Rec("1", Absent, Absent,
                                          Some(<<PhotoLeaf("2"), VideoLeaf("3")>>))>>)]), Absent) >>

----------------------------------------------------------------------------
(* State *)

\* a window one wider
ConcurrencyPlusOne == 4 + 1

\* l.262: concurrency: 4
Concurrency == 4

NumLinks == Concurrency + ExtraLinks

Links == DOMAIN served

NotRun == [done |-> FALSE, media |-> <<>>, threw |-> FALSE]

\* the batch of a run: NumLinks consecutive pages of the catalogue, from offset o
Window(o) == [l \in 1..NumLinks |-> Catalog[((o + l - 2) % Len(Catalog)) + 1]]

InitMain ==
    /\ mainPc = "createGmail"
    /\ browser = "none"
    /\ mainDefer = <<>>
    /\ mainError = Absent
    /\ releases = 0
    /\ runnerPc = "idle"

InitLinks(s) ==
    /\ served = s
    /\ pc = [l \in DOMAIN s |-> "queued"]
    /\ opened = [l \in DOMAIN s |-> 0]
    /\ closes = [l \in DOMAIN s |-> 0]
    /\ closed = [l \in DOMAIN s |-> 0]
    /\ fetches = [l \in DOMAIN s |-> <<>>]
    /\ mediaArray = [l \in DOMAIN s |-> <<>>]
    /\ pending = [l \in DOMAIN s |-> NoOutcome]
    /\ outcome = [l \in DOMAIN s |-> NoOutcome]

\* a run over a batch of NumLinks links
Init ==
    /\ InitMain
    /\ \E o \in 1..Len(Catalog) : InitLinks(Window(o))
    /\ normIn = <<>>
    /\ normOut = NotRun

\* a run over a single link, with every page and response it can meet
InitLink ==
    /\ InitMain
    /\ \E sc \in LinkScenarios : InitLinks(<<sc>>)
    /\ normIn = <<>>
    /\ normOut = NotRun

\* the normalizer alone, on every raw media batch of at most MaxNodes records
InitNorm ==
    /\ mainPc = "ended"
    /\ browser = "none"
    /\ mainDefer = <<>>
    /\ mainError = Absent
    /\ releases = 0
    /\ runnerPc = "idle"
    /\ InitLinks(<<>>)
    /\ normIn \in Forests(MaxNodes)
    /\ normOut = NotRun

----------------------------------------------------------------------------
(* The main routine, l.57-265 *)

\* radash.defer: once the callback has returned or thrown, every registered
\* callback is called, in order; here at most one is registered (l.90, l.99)
ReleaseOf(callback) == IF callback = "browser.close" THEN "closed" ELSE "disconnected"

EndMain(err) ==
    /\ mainError' = err
    /\ releases' = releases + Len(mainDefer)
    /\ IF Len(mainDefer) > 0
       THEN /\ mainPc' = "releasing"
            /\ browser' = ReleaseOf(mainDefer[1])
       ELSE /\ mainPc' = "ended"
            /\ UNCHANGED browser
    /\ UNCHANGED mainDefer

\* l.58-77: await createGmail
GmailDone ==
    /\ mainPc = "createGmail"
    /\ \/ mainPc' = "createPuppeteer" /\ UNCHANGED <<browser, mainDefer, mainError, releases>>
       \/ EndMain(Some("createGmail failed"))
    /\ UNCHANGED <<served, runnerPc, linkVars, outcome, normVars>>

\* l.79-81: await createPuppeteer; then connect or launch is called
PuppeteerDone ==
    /\ mainPc = "createPuppeteer"
    /\ \/ mainPc' = "acquire" /\ UNCHANGED <<browser, mainDefer, mainError, releases>>
       \/ EndMain(Some("createPuppeteer failed"))
    /\ UNCHANGED <<served, runnerPc, linkVars, outcome, normVars>>

\* the browser handle arrives and no release is registered for it
BrowserAcquiredNoDefer ==
    /\ mainPc = "acquire"
    /\ \/ \E remote \in BOOLEAN :
            /\ browser' = IF remote THEN "connected" ELSE "launched"
            /\ mainPc' = "login"
            /\ UNCHANGED <<mainDefer, mainError, releases>>
       \/ EndMain(Some("no browser"))
    /\ UNCHANGED <<served, runnerPc, linkVars, outcome, normVars>>

\* l.85-100: the browser handle arrives and its release is registered; l.102: login is called
BrowserAcquired ==
    /\ mainPc = "acquire"
    /\ \/ \E remote \in BOOLEAN :
            /\ browser' = IF remote THEN "connected" ELSE "launched"
            /\ mainDefer' = Append(mainDefer,
                                   IF remote THEN "browser.close" ELSE "browser.disconnect")
            /\ mainPc' = "login"
            /\ UNCHANGED <<mainError, releases>>
       \/ EndMain(Some("no browser"))
    /\ UNCHANGED <<served, runnerPc, linkVars, outcome, normVars>>

\* a login failure that is noted and not thrown: the batch is run all the same
LoginDoneNotFatal ==
    /\ mainPc = "login"
    /\ mainPc' = "batch"
    /\ runnerPc' = "running"
    /\ \/ UNCHANGED mainError
       \/ \E why \in {"login failed", "No verification code found"} : mainError' = Some(why)
    /\ UNCHANGED <<browser, mainDefer, releases, served, linkVars, outcome, normVars>>

\* l.102-113: await login; l.258: processRequests is called
LoginDone ==
    /\ mainPc = "login"
    /\ \/ /\ mainPc' = "batch"
          /\ runnerPc' = "running"
          /\ UNCHANGED <<browser, mainDefer, mainError, releases>>
       \/ /\ \E why \in {"login failed", "No verification code found"} : EndMain(Some(why))
          /\ UNCHANGED runnerPc
    /\ UNCHANGED <<served, linkVars, outcome, normVars>>

\* l.258-264: await processRequests returns; the callback ends
BatchDone ==
    /\ mainPc = "batch"
    /\ runnerPc = "completed"
    /\ EndMain(Absent)
    /\ UNCHANGED <<served, runnerPc, linkVars, outcome, normVars>>

\* the registered release has run; radash.defer rethrows the error, if any
ReleaseDone ==
    /\ mainPc = "releasing"
    /\ mainPc' = "ended"
    /\ UNCHANGED <<browser, mainDefer, mainError, releases, served, runnerPc, linkVars, outcome,
                   normVars>>

----------------------------------------------------------------------------
(* The batch runner, processRequests (resolvers/lib.js) *)

Unsettled == { l \in Links : pc[l] \notin {"queued", "settled"} }

\* a slot is free and l is the next queued item: fn is invoked for it, which
\* runs computeForLink up to its first await, browser.newPage() (l.116)
Dispatch(l) ==
    /\ runnerPc = "running"
    /\ pc[l] = "queued"
    /\ \A j \in Links : j < l => pc[j] # "queued"
    /\ Cardinality(Unsettled) < Concurrency
    /\ pc' = [pc EXCEPT ![l] = "newPage"]
    /\ UNCHANGED <<mainVars, served, runnerPc, opened, closes, closed, fetches, mediaArray, pending, outcome, normVars>>

\* the outcome the runner records for an item whose invocation has settled
Recorded(result) == result

\* the run ends as soon as one item has failed
RunnerCompleteFailFast ==
    /\ runnerPc = "running"
    /\ \/ \A l \in Links : pc[l] = "settled"
       \/ \E l \in Links : pc[l] = "settled" /\ outcome[l].status = "rejected"
    /\ runnerPc' = "completed"
    /\ UNCHANGED <<mainVars, served, linkVars, outcome, normVars>>

\* the run ends as soon as no item is queued
RunnerCompleteOnEmptyQueue ==
    /\ runnerPc = "running"
    /\ \A l \in Links : pc[l] # "queued"
    /\ runnerPc' = "completed"
    /\ UNCHANGED <<mainVars, served, linkVars, outcome, normVars>>

\* every item has settled: the run completes
RunnerComplete ==
    /\ runnerPc = "running"
    /\ \A l \in Links : pc[l] = "settled"
    /\ runnerPc' = "completed"
    /\ UNCHANGED <<mainVars, served, linkVars, outcome, normVars>>

----------------------------------------------------------------------------
(* computeForLink, l.115-256 *)

\* one array for every invocation
AccumulatorShared(l) == 1

\* l.223: `const media = []` is declared in the body of the invocation, so
\* invocation l pushes into an array of its own
Accumulator(l) == l

\* the close registered with the defer of the main routine (l.57) in place
\* of the link's own (l.115): nothing runs when the body of the link ends
PageDeferredToMain(pages) == <<>>

\* l.117: the callbacks registered with the link's defer once it has a page
PageDeferred(pages) == IF pages > 0 THEN <<"page.close">> ELSE <<>>

\* a body that closes its page itself, as its last statement
DeferredCallsOnReturn(pages, result) ==
    IF result.status = "fulfilled" THEN PageDeferred(pages) ELSE <<>>

\* l.115-117: radash.defer calls every registered callback once the body has
\* returned or thrown, whatever the result
DeferredCalls(pages, result) == PageDeferred(pages)

\* the body has returned or thrown `result`: the deferred page.close() is called
EndBody(l, pages, result) ==
    /\ pending' = [pending EXCEPT ![l] = result]
    /\ closes' = [closes EXCEPT ![l] = @ + Len(DeferredCalls(pages, result))]
    /\ pc' = [pc EXCEPT ![l] = "deferred"]

\* page.goto is called and not awaited: the script payloads are requested at once
NewPageDoneGotoNotAwaited(l) ==
    /\ pc[l] = "newPage"
    /\ IF served[l].newPage
       THEN /\ opened' = [opened EXCEPT ![l] = @ + 1]
            /\ pc' = [pc EXCEPT ![l] = "scripts"]
            /\ UNCHANGED <<closes, pending>>
       ELSE /\ EndBody(l, opened[l], Rejected("newPage failed"))
            /\ UNCHANGED opened
    /\ UNCHANGED <<mainVars, served, runnerPc, closed, fetches, mediaArray, outcome, normVars>>

\* l.116-125: browser.newPage() settles; the close is registered, goto is called
NewPageDone(l) ==
    /\ pc[l] = "newPage"
    /\ IF served[l].newPage
       THEN /\ opened' = [opened EXCEPT ![l] = @ + 1]
            /\ pc' = [pc EXCEPT ![l] = "goto"]
            /\ UNCHANGED <<closes, pending>>
       ELSE /\ EndBody(l, opened[l], Rejected("newPage failed"))
            /\ UNCHANGED opened
    /\ UNCHANGED <<mainVars, served, runnerPc, closed, fetches, mediaArray, outcome, normVars>>

\* l.123-135: page.goto settles; the script payloads are requested
GotoDone(l) ==
    /\ pc[l] = "goto"
    /\ IF served[l].goto
       THEN /\ pc' = [pc EXCEPT ![l] = "scripts"]
            /\ UNCHANGED <<closes, pending>>
       ELSE EndBody(l, opened[l], Rejected("navigation failed"))
    /\ UNCHANGED <<mainVars, served, runnerPc, opened, closed, fetches, mediaArray, outcome, normVars>>

\* l.127-221: the script payloads arrive; the page is classified and the
\* branch's fetch is issued
ScriptsDone(l) ==
    /\ pc[l] = "scripts"
    /\ IF ~Present(served[l].details)
       THEN EndBody(l, opened[l], Rejected("evaluate failed")) /\ UNCHANGED fetches
       ELSE LET details == Get(served[l].details)
            IN  IF TitleThrows(details)
                THEN EndBody(l, opened[l], Rejected("TypeError")) /\ UNCHANGED fetches
                ELSE IF Branch(details) = "default"
                THEN EndBody(l, opened[l], Rejected("Unhandled page type")) /\ UNCHANGED fetches
                ELSE /\ fetches' = [fetches EXCEPT ![l] = Append(@, Endpoint(Branch(details)))]
                     /\ pc' = [pc EXCEPT ![l] = IF Branch(details) = "post"
                                                 THEN "fetchPost" ELSE "fetchStory"]
                     /\ UNCHANGED <<closes, pending>>
    /\ UNCHANGED <<mainVars, served, runnerPc, opened, closed, mediaArray, outcome, normVars>>

\* a failed media-info fetch is issued once more
PostFetchDoneRetry(l) ==
    /\ pc[l] = "fetchPost"
    /\ IF ~Present(served[l].postResp) /\ Len(fetches[l]) < 2
       THEN /\ fetches' = [fetches EXCEPT ![l] = Append(@, Endpoint("post"))]
            /\ UNCHANGED <<pc, closes, pending, mediaArray>>
       ELSE /\ EndBody(l, opened[l],
                       IF ~Present(served[l].postResp) THEN Rejected("fetch failed")
                       ELSE AfterPostFetch(Get(served[l].details), Get(served[l].postResp),
                                           mediaArray[l]))
            /\ mediaArray' = [mediaArray EXCEPT ![l] =
                                IF ~Present(served[l].postResp) THEN @
                                ELSE PostAccumulated(Get(served[l].postResp), @)]
            /\ UNCHANGED fetches
    /\ UNCHANGED <<mainVars, served, runnerPc, opened, closed, outcome, normVars>>

\* l.162-182 and l.223-255: the media-info response arrives
PostFetchDone(l) ==
    /\ pc[l] = "fetchPost"
    /\ IF ~Present(served[l].postResp)
       THEN /\ EndBody(l, opened[l], Rejected("fetch failed"))
            /\ UNCHANGED mediaArray
       ELSE LET a == Accumulator(l)
            IN  /\ EndBody(l, opened[l],
                           AfterPostFetch(Get(served[l].details), Get(served[l].postResp), mediaArray[a]))
                /\ mediaArray' = [mediaArray EXCEPT ![a] = PostAccumulated(Get(served[l].postResp), @)]
    /\ UNCHANGED <<mainVars, served, runnerPc, opened, closed, fetches, outcome, normVars>>

\* l.189-216 and l.223-255: the reel-media response arrives
StoryFetchDone(l) ==
    /\ pc[l] = "fetchStory"
    /\ IF ~Present(served[l].storyResp)
       THEN /\ EndBody(l, opened[l], Rejected("fetch failed"))
            /\ UNCHANGED mediaArray
       ELSE LET a == Accumulator(l)
            IN  /\ EndBody(l, opened[l],
                           AfterStoryFetch(Get(served[l].details), Get(served[l].storyResp), mediaArray[a]))
                /\ mediaArray' = [mediaArray EXCEPT ![a] = StoryAccumulated(Get(served[l].details),
                                                                  Get(served[l].storyResp), @)]
    /\ UNCHANGED <<mainVars, served, runnerPc, opened, closed, fetches, outcome, normVars>>

\* the deferred callback does not return the promise of page.close(): the
\* invocation settles while the close is still under way
SettleCloseNotAwaited(l) ==
    /\ pc[l] = "deferred"
    /\ pc' = [pc EXCEPT ![l] = "settled"]
    /\ outcome' = [outcome EXCEPT ![l] = Recorded(pending[l])]
    /\ UNCHANGED <<mainVars, served, runnerPc, opened, closes, closed, fetches, mediaArray,
                   pending, normVars>>

\* the deferred page.close(), which radash.defer awaits, has completed: the
\* invocation settles with the body's result, and the runner records it
Settle(l) ==
    /\ pc[l] = "deferred"
    /\ closed' = [closed EXCEPT ![l] = closes[l]]
    /\ pc' = [pc EXCEPT ![l] = "settled"]
    /\ outcome' = [outcome EXCEPT ![l] = Recorded(pending[l])]
    /\ UNCHANGED <<mainVars, served, runnerPc, opened, closes, fetches, mediaArray, pending, normVars>>

----------------------------------------------------------------------------
(* The normalizer alone *)

NormalizeStep ==
    /\ ~normOut.done
    /\ mainPc = "ended" /\ Links = {}
    /\ normOut' = [done |-> TRUE, media |-> Normalize(normIn).media,
                   threw |-> Normalize(normIn).threw]
    /\ UNCHANGED <<mainVars, served, runnerPc, linkVars, outcome, normIn>>

----------------------------------------------------------------------------
(* Specifications *)

DispatchNext == \E l \in Links : Dispatch(l)

NewPage == \E l \in Links : NewPageDone(l)

Goto == \E l \in Links : GotoDone(l)

Scripts == \E l \in Links : ScriptsDone(l)

PostFetch == \E l \in Links : PostFetchDone(l)

StoryFetch == \E l \in Links : StoryFetchDone(l)

Settled == \E l \in Links : Settle(l)

Next ==
    \/ GmailDone
    \/ PuppeteerDone
    \/ BrowserAcquired
    \/ LoginDone
    \/ BatchDone
    \/ ReleaseDone
    \/ RunnerComplete
    \/ DispatchNext
    \/ NewPage
    \/ Goto
    \/ Scripts
    \/ PostFetch
    \/ StoryFetch
    \/ Settled

\* a batch of NumLinks links
Spec == Init /\ [][Next]_vars

\* one link
SpecLink == InitLink /\ [][Next]_vars

\* the normalizer
SpecNorm == InitNorm /\ [][NormalizeStep]_vars

\* a batch in which every pending call is eventually answered and every
\* continuation eventually run
SpecFair == Init /\ [][Next]_vars /\ WF_vars(Next)

----------------------------------------------------------------------------
(* Reference definitions used by the properties *)

\* the page data of the scenario holds a post, a story descriptor
HasPost(sc) == Present(sc.details) /\ Present(Get(sc.details).postData)

HasStory(sc) == Present(sc.details) /\ Present(Get(sc.details).storyData)

\* the page was opened and loaded and its script payloads were extracted
Extracted(sc) == sc.newPage /\ sc.goto /\ Present(sc.details)

\* the link's fetch returns a response from which a raw media batch is taken
ReachesNormalization(sc) ==
    /\ Extracted(sc)
    /\ ~TitleThrows(Get(sc.details))
    /\ \/ HasPost(sc) /\ Present(sc.postResp) /\ Present(Get(sc.postResp).items)
       \/ ~HasPost(sc) /\ HasStory(sc) /\ Present(sc.storyResp)
            /\ Present(Get(sc.storyResp).reel)

\* that raw media batch
RawBatchOf(sc) ==
    IF HasPost(sc) THEN Get(Get(sc.postResp).items)
    ELSE StoryRawMedia(Get(Get(sc.storyResp).reel), Get(Get(sc.details).storyData))

\* the items of the story response that have the wanted primary key
MatchingItems(sc) ==
    LET data == Get(sc.storyResp)
        id   == Get(Get(sc.details).storyData).initial_media_id
    IN  IF Present(data.reel) /\ Present(Get(data.reel).items)
        THEN { k \in 1..Len(Get(Get(data.reel).items)) : Get(Get(data.reel).items)[k].pk = id }
        ELSE {}

\* the result of resolving a link on its own, from what is served for it
Resolve(sc) ==
    IF ~sc.newPage THEN Rejected("newPage failed")
    ELSE IF ~sc.goto THEN Rejected("navigation failed")
    ELSE IF ~Present(sc.details) THEN Rejected("evaluate failed")
    ELSE IF TitleThrows(Get(sc.details)) THEN Rejected("TypeError")
    ELSE IF HasPost(sc)
         THEN IF Present(sc.postResp)
              THEN AfterPostFetch(Get(sc.details), Get(sc.postResp), <<>>)
              ELSE Rejected("fetch failed")
    ELSE IF HasStory(sc)
         THEN IF Present(sc.storyResp)
              THEN AfterStoryFetch(Get(sc.details), Get(sc.storyResp), <<>>)
              ELSE Rejected("fetch failed")
    ELSE Rejected("Unhandled page type")

RECURSIVE LeavesOf(_), LeavesOfAll(_), NodesOf(_), NodesOfAll(_)

\* the emitting leaves of a record, depth first and left to right
LeavesOf(r) ==
    IF Present(r.video_versions) THEN <<Descriptor("video", Get(r.video_versions)[1])>>
    ELSE IF Present(r.image_versions2) THEN <<Descriptor("photo", Get(r.image_versions2)[1])>>
    ELSE IF Present(r.carousel_media) THEN LeavesOfAll(Get(r.carousel_media))
    ELSE <<>>

LeavesOfAll(q) == IF Len(q) = 0 THEN <<>> ELSE LeavesOf(Head(q)) \o LeavesOfAll(Tail(q))

\* every record of a batch, at any depth
NodesOf(r) ==
    {r} \cup (IF Present(r.carousel_media) THEN NodesOfAll(Get(r.carousel_media)) ELSE {})

NodesOfAll(q) == UNION { NodesOf(q[k]) : k \in 1..Len(q) }

----------------------------------------------------------------------------
(* Properties *)

\* C1: in every reachable state of a batch of more than 4 links, at most 4
\* computeForLink invocations have been started and have not settled.
C1_AtMostFourUnsettled ==
    Cardinality({ l \in Links : pc[l] \notin {"queued", "settled"} }) <= 4

C1_WindowFull ==
    /\ Cardinality({ l \in Links : pc[l] \notin {"queued", "settled"} }) = 4
    /\ \E l \in Links : pc[l] = "queued"

\* C2: a link opens at most one page; the page is not closed while the body
\* runs, and once the body has returned or thrown, on any path, page.close()
\* has been called exactly once for it (never twice, never not at all).
C2_PageClosedOnce ==
    \A l \in Links :
      /\ opened[l] <= 1
      /\ closes[l] <= opened[l]
      /\ pc[l] \in {"goto", "scripts", "fetchPost", "fetchStory"}
           => opened[l] = 1 /\ closes[l] = 0
      /\ pc[l] \in {"deferred", "settled"} => closes[l] = opened[l]
      /\ pc[l] = "settled" => closed[l] = opened[l]

C2_ClosedAfterFailure ==
    \E l \in Links :
      /\ pc[l] = "settled"
      /\ outcome[l] = Rejected("fetch failed")
      /\ opened[l] = 1 /\ closes[l] = 1 /\ closed[l] = 1

\* every settled link has the outcome of its own resolution; the run ends
\* only with every link settled and without an error of its own
C3_OwnOutcome ==
    /\ \A l \in Links : pc[l] = "settled" => outcome[l] = Resolve(served[l])
    /\ (mainPc \in {"releasing", "ended"} /\ runnerPc # "idle")
         => /\ \A l \in Links : pc[l] = "settled"
            /\ mainError = Absent

\* a step in which link l's body throws, or l settles as failed, leaves every
\* other link, the runner and the main routine as they were
C3_FailureIsLocal ==
    \A l \in Links :
      (pending'[l].status = "rejected" /\ (pending'[l] # pending[l] \/ pc'[l] # pc[l]))
        => /\ \A j \in Links \ {l} :
                /\ pc'[j] = pc[j] /\ pending'[j] = pending[j] /\ outcome'[j] = outcome[j]
                /\ opened'[j] = opened[j] /\ closes'[j] = closes[j] /\ closed'[j] = closed[j]
                /\ fetches'[j] = fetches[j]
           /\ runnerPc' = runnerPc
           /\ mainError' = mainError

\* C3: every settled link has the outcome of its own resolution, whatever
\* the other links of the batch did; a step in which a link fails changes
\* nothing of any other link nor of the runner; the run ends only with
\* every link settled and without an error of its own.
C3_FailuresStayWithTheirLink == []C3_OwnOutcome /\ [][C3_FailureIsLocal]_vars

C3_FailedAndSucceeded ==
    /\ runnerPc = "completed"
    /\ \E l, j \in Links :
         /\ outcome[l] = Rejected("No media found")
         /\ outcome[j].status = "fulfilled"
         /\ l < j

\* a completed run has one recorded outcome for each of its NumLinks links
C4_AllSettled ==
    runnerPc = "completed"
      => /\ \A l \in Links : pc[l] = "settled" /\ outcome[l].status \in {"fulfilled", "rejected"}
         /\ Cardinality({ l \in Links : outcome[l].status # "none" }) = NumLinks
         /\ DOMAIN outcome = 1..NumLinks

\* C4: the run completes only when each of the NumLinks links has settled,
\* with one recorded outcome per link; and, every pending step being
\* eventually taken, a run that has started eventually completes.
C4_CompletesAfterAllSettle ==
    []C4_AllSettled /\ ((runnerPc = "running") ~> (runnerPc = "completed"))

C4_Completed ==
    /\ runnerPc = "completed"
    /\ Cardinality({ l \in Links : outcome[l].status \in {"fulfilled", "rejected"} }) = NumLinks
    /\ NumLinks > 4

\* C5: a link whose extracted page data holds neither a post nor a story
\* descriptor issues no fetch and fails with "Unhandled page type", which
\* is recorded as the outcome of that link while the run goes on.
C5_UnhandledPageType ==
    \A l \in Links :
      (Extracted(served[l]) /\ ~HasPost(served[l]) /\ ~HasStory(served[l]))
        => /\ fetches[l] = <<>>
           /\ pc[l] \notin {"fetchPost", "fetchStory"}
           /\ pc[l] \in {"deferred", "settled"} => pending[l] = Rejected("Unhandled page type")
           /\ pc[l] = "settled"
                => /\ outcome[l] = Rejected("Unhandled page type")
                   /\ mainError = Absent

C5_UnhandledRecorded ==
    \E l \in Links :
      /\ Extracted(served[l]) /\ ~HasPost(served[l]) /\ ~HasStory(served[l])
      /\ pc[l] = "settled"
      /\ outcome[l] = Rejected("Unhandled page type")
      /\ runnerPc = "completed"

\* C6: a fulfilled result never has an empty media list, and a link whose
\* raw media batch normalizes to no descriptor fails with "No media found".
C6_MediaNeverEmpty ==
    \A l \in Links :
      /\ pending[l].status = "fulfilled" => Len(pending[l].media) > 0
      /\ outcome[l].status = "fulfilled" => Len(outcome[l].media) > 0
      /\ (/\ pc[l] \in {"deferred", "settled"}
          /\ ReachesNormalization(served[l])
          /\ ~Normalize(RawBatchOf(served[l])).threw
          /\ Len(Normalize(RawBatchOf(served[l])).media) = 0)
           => pending[l] = Rejected("No media found")

C6_EmptyItemList ==
    \E l \in Links :
      /\ HasPost(served[l])
      /\ served[l].postResp = Some([items |-> Some(<<>>)])
      /\ pc[l] = "settled"
      /\ outcome[l] = Rejected("No media found")

\* C7: a record carrying a video-variant list contributes exactly one
\* descriptor, of kind video, also when it carries an image-variant list;
\* one carrying an image-variant list and no video-variant list contributes
\* exactly one, of kind photo; in both cases whatever its carousel holds.
C7_Priority ==
    normOut.done
      => /\ \A r \in NodesOfAll(normIn) :
              LET out == processMedia(r, NormState(<<>>, FALSE))
              IN  /\ Present(r.video_versions)
                       => out = NormState(<<Descriptor("video", Get(r.video_versions)[1])>>, FALSE)
                  /\ (~Present(r.video_versions) /\ Present(r.image_versions2))
                       => out = NormState(<<Descriptor("photo", Get(r.image_versions2)[1])>>, FALSE)
         /\ (\A k \in 1..Len(normIn) :
                Present(normIn[k].video_versions) \/ Present(normIn[k].image_versions2))
              => /\ Len(normOut.media) = Len(normIn)
                 /\ \A k \in 1..Len(normIn) :
                      normOut.media[k].type =
                        IF Present(normIn[k].video_versions) THEN "video" ELSE "photo"

C7_VideoAndImageAndCarousel ==
    /\ normOut.done
    /\ \E k \in 1..Len(normIn) :
         /\ Present(normIn[k].video_versions)
         /\ Present(normIn[k].image_versions2)
         /\ Present(normIn[k].carousel_media)
         /\ Len(Get(normIn[k].carousel_media)) > 0
         /\ Len(normOut.media) = Len(normIn)
         /\ normOut.media[k].type = "video"

\* C8: the normalized list is the sequence of the batch's emitting leaves,
\* depth first and left to right.
C8_DepthFirstOrder ==
    normOut.done => ~normOut.threw /\ normOut.media = LeavesOfAll(normIn)

C8_NestedCarousel ==
    /\ normOut.done
    /\ Len(normIn) = 2
    /\ Present(normIn[2].carousel_media)
    /\ ~Present(normIn[2].video_versions) /\ ~Present(normIn[2].image_versions2)
    /\ normOut.media = <<Descriptor("video", "v1.mp4"), Descriptor("photo", "p1.jpg")>>

\* C9 (as claimed): in the story branch, whenever the response holds no item
\* with the wanted primary key, the link fails with "No media found"; when
\* it holds one, the raw media batch is that item alone.
C9_NoItemMeansNoMedia ==
    \A l \in Links :
      (/\ pc[l] \in {"deferred", "settled"}
       /\ fetches[l] = <<"feed/reels_media">>
       /\ Present(served[l].storyResp))
        => /\ MatchingItems(served[l]) = {}
                => pending[l] = Rejected("No media found")
           /\ MatchingItems(served[l]) # {}
                => \E k \in MatchingItems(served[l]) :
                     RawBatchOf(served[l]) = <<Get(Get(Get(served[l].storyResp).reel).items)[k]>>

\* what holds of C9's case when the response has an entry for the user: with
\* no matching item (no matching pk, an empty or a missing item list) the
\* link fails with "No media found"
C9_WithReelEntry ==
    \A l \in Links :
      (/\ pc[l] \in {"deferred", "settled"}
       /\ fetches[l] = <<"feed/reels_media">>
       /\ Present(served[l].storyResp)
       /\ Present(Get(served[l].storyResp).reel)
       /\ MatchingItems(served[l]) = {})
        => pending[l] = Rejected("No media found")

MetaTitle(postData) ==
    IF Present(postData.meta) THEN Get(postData.meta).title ELSE Absent

\* the post response yields at least one descriptor
GoodPostResponse(sc) ==
    /\ Present(sc.postResp)
    /\ Present(Get(sc.postResp).items)
    /\ ~Normalize(Get(Get(sc.postResp).items)).threw
    /\ Len(Normalize(Get(Get(sc.postResp).items)).media) > 0

\* C11 (as claimed): a link with a post descriptor always reaches the post
\* fetch, and with a response that yields media it succeeds with the
\* descriptor's meta title, or with null when the title or the whole meta
\* record is absent.
C11_TitleFromMeta ==
    \A l \in Links :
      (/\ pc[l] \in {"deferred", "settled"}
       /\ Extracted(served[l])
       /\ HasPost(served[l]))
        => /\ fetches[l] = <<"media/info">>
           /\ GoodPostResponse(served[l])
                => /\ pending[l].status = "fulfilled"
                   /\ pending[l].title = MetaTitle(Get(Get(served[l].details).postData))

\* what holds of C11's case when the descriptor carries a meta record: the
\* title is the meta title, null when the record has none, and the link
\* does not fail for the lack of a title
C11_WithMetaRecord ==
    \A l \in Links :
      (/\ pc[l] \in {"deferred", "settled"}
       /\ Extracted(served[l])
       /\ HasPost(served[l])
       /\ Present(Get(Get(served[l].details).postData).meta))
        => /\ fetches[l] = <<"media/info">>
           /\ GoodPostResponse(served[l])
                => /\ pending[l].status = "fulfilled"
                   /\ pending[l].title = MetaTitle(Get(Get(served[l].details).postData))

\* a record carrying none of the three lists
Unrecognized(r) ==
    ~Present(r.video_versions) /\ ~Present(r.image_versions2) /\ ~Present(r.carousel_media)

RECURSIVE PruneAll(_)

\* the batch without its unrecognized records, at any depth
PruneAll(q) ==
    IF Len(q) = 0 THEN <<>>
    ELSE LET r == Head(q)
         IN  (IF Unrecognized(r) THEN <<>>
              ELSE IF Present(r.carousel_media)
                   THEN <<[r EXCEPT !.carousel_media = Some(PruneAll(Get(r.carousel_media)))]>>
              ELSE <<r>>) \o PruneAll(Tail(q))

\* C12: a record carrying none of the three lists leaves the accumulator as
\* it was and raises no error, and the output of a batch is the output of
\* the same batch without such records: the records that follow one, in the
\* batch or in the enclosing carousel, still contribute their descriptors.
C12_UnrecognizedSkipped ==
    normOut.done
      => /\ \A r \in NodesOfAll(normIn) :
              Unrecognized(r)
                => /\ processMedia(r, NormState(<<>>, FALSE)) = NormState(<<>>, FALSE)
                   /\ processMedia(r, NormState(<<Descriptor("photo", "p0.jpg")>>, FALSE))
                        = NormState(<<Descriptor("photo", "p0.jpg")>>, FALSE)
         /\ ~normOut.threw
         /\ normOut.media = Normalize(PruneAll(normIn)).media
         /\ \A k \in 1..Len(normIn) :
              (Unrecognized(normIn[k]) /\ k < Len(normIn))
                => normOut.media = Normalize(SubSeq(normIn, 1, k - 1)).media
                                     \o Normalize(SubSeq(normIn, k + 1, Len(normIn))).media

C12_SkippedInsideCarousel ==
    /\ normOut.done
    /\ Len(normIn) = 1
    /\ ~Present(normIn[1].video_versions) /\ ~Present(normIn[1].image_versions2)
    /\ Present(normIn[1].carousel_media)
    /\ Len(Get(normIn[1].carousel_media)) = 2
    /\ Unrecognized(Get(normIn[1].carousel_media)[1])
    /\ Present(Get(normIn[1].carousel_media)[2].video_versions)
    /\ normOut.media = <<Descriptor("video", "v1.mp4")>>
    /\ ~normOut.threw

\* once a link's body has ended, its result is the result of resolving the
\* link alone, and its array holds the descriptors of its own raw media
\* batch and nothing else
C13_OwnMedia ==
    \A l \in Links :
      pc[l] \in {"deferred", "settled"}
        => /\ pending[l] = Resolve(served[l])
           /\ mediaArray[l] = IF ReachesNormalization(served[l])
                         THEN Normalize(RawBatchOf(served[l])).media
                         ELSE <<>>
           /\ pending[l].status = "fulfilled" => pending[l].media = mediaArray[l]
           /\ pc[l] = "settled" => outcome[l].media = pending[l].media

\* an array changes only in the step in which its own link normalizes
C13_OwnArrayOnly ==
    \A j \in Links :
      mediaArray'[j] # mediaArray[j] => pc[j] \in {"fetchPost", "fetchStory"} /\ pc'[j] = "deferred"

\* C13: in every interleaving of the links of a batch, each link's result is
\* the result of resolving it alone, its media list is the normalization of
\* its own raw media batch, and no step of one link changes the media array
\* of another.
C13_MediaOfOwnBatchOnly == []C13_OwnMedia /\ [][C13_OwnArrayOnly]_vars

C13_InterleavedResults ==
    \E l, j \in Links :
      /\ l < j
      /\ pc[l] = "deferred" /\ pending[l].status = "fulfilled"
      /\ pc[j] = "settled" /\ outcome[j].status = "fulfilled"
      /\ pending[l].media # outcome[j].media
      /\ mediaArray[l] = pending[l].media /\ mediaArray[j] = outcome[j].media

\* the reasons with which login (l.102-113) rejects
LoginFailures == {"login failed", "No verification code found"}

\* no link has been started: no page, no fetch, no body result, no outcome
NothingStarted ==
    \A l \in Links :
      /\ pc[l] = "queued"
      /\ opened[l] = 0 /\ closes[l] = 0 /\ closed[l] = 0
      /\ fetches[l] = <<>>
      /\ pending[l] = NoOutcome /\ outcome[l] = NoOutcome

\* C14: until login has returned, the batch runner is not invoked and no
\* link is started; a run whose login failed, or found no verification
\* code, has ended with that error, with the runner never invoked, no page
\* opened for a link and no outcome recorded; a link is started only in a
\* run whose login succeeded.
C14_LoginFirst ==
    /\ mainPc \in {"createGmail", "createPuppeteer", "acquire", "login"}
         => runnerPc = "idle" /\ NothingStarted
    /\ (Present(mainError) /\ Get(mainError) \in LoginFailures)
         => /\ mainPc \in {"releasing", "ended"}
            /\ runnerPc = "idle"
            /\ NothingStarted
    /\ ~NothingStarted => mainError = Absent /\ runnerPc # "idle"

C14_NoVerificationCode ==
    /\ mainPc = "ended"
    /\ mainError = Some("No verification code found")
    /\ runnerPc = "idle"
    /\ NothingStarted
    /\ Cardinality(Links) > 0

\* the fetch of the link's branch rejects, or its response lacks the item
\* list (post) or the user's reel entry (story), or holds a record whose
\* variant list has no variant
FetchGoesWrong(sc) ==
    IF HasPost(sc)
    THEN \/ ~Present(sc.postResp)
         \/ ~Present(Get(sc.postResp).items)
         \/ Normalize(Get(Get(sc.postResp).items)).threw
    ELSE \/ ~Present(sc.storyResp)
         \/ ~Present(Get(sc.storyResp).reel)
         \/ Normalize(RawBatchOf(sc)).threw

\* C15: a link issues its fetch at most once; when the fetch rejects or the
\* response has not the expected shape, the body throws: the link is
\* rejected, no result value exists for it, no further fetch was issued and
\* its page has been closed.
C15_FetchFailureFailsLink ==
    \A l \in Links :
      /\ Len(fetches[l]) <= 1
      /\ (/\ pc[l] \in {"deferred", "settled"}
          /\ Len(fetches[l]) > 0
          /\ FetchGoesWrong(served[l]))
           => /\ pending[l].status = "rejected"
              /\ pending[l].reason \in {"fetch failed", "TypeError"}
              /\ pending[l].media = <<>> /\ pending[l].url = Absent
              /\ Len(fetches[l]) = 1
              /\ opened[l] = 1 /\ closes[l] = 1
              /\ pc[l] = "settled"
                   => outcome[l].status = "rejected" /\ closed[l] = 1

C15_NoItemList ==
    \E l \in Links :
      /\ HasPost(served[l])
      /\ served[l].postResp = Some([items |-> Absent])
      /\ pc[l] = "settled"
      /\ fetches[l] = <<"media/info">>
      /\ outcome[l] = Rejected("TypeError")
      /\ closed[l] = 1

\* the steps of one link in the order of the body: the page is opened
\* (newPage), loaded (goto), its data extracted and classified and the fetch
\* issued (scripts), the response awaited (fetchPost, fetchStory), then the
\* batch normalized and the result returned in one run of the body up to its
\* end (deferred); a throw leads from any step to the end of the body
StepOrder ==
    { <<"queued", "newPage">>, <<"newPage", "goto">>, <<"goto", "scripts">>,
      <<"scripts", "fetchPost">>, <<"scripts", "fetchStory">>,
      <<"fetchPost", "deferred">>, <<"fetchStory", "deferred">>,
      <<"newPage", "deferred">>, <<"goto", "deferred">>, <<"scripts", "deferred">>,
      <<"deferred", "settled">> }

\* what has happened of a link so far is consistent with its position
C16_Phases ==
    \A l \in Links :
      /\ pc[l] \in {"queued", "newPage", "goto", "scripts"}
           => fetches[l] = <<>> /\ mediaArray[l] = <<>> /\ pending[l] = NoOutcome
      /\ fetches[l] # <<>>
           => /\ served[l].newPage /\ served[l].goto
              /\ HasPost(served[l]) \/ HasStory(served[l])
              /\ Len(fetches[l]) = 1
      /\ pc[l] \in {"fetchPost", "fetchStory"}
           => mediaArray[l] = <<>> /\ pending[l] = NoOutcome
      /\ mediaArray[l] # <<>>
           => /\ Len(fetches[l]) = 1
              /\ ReachesNormalization(served[l])
              /\ pc[l] \in {"deferred", "settled"}
      /\ pending[l].status = "fulfilled"
           => /\ pending[l].media = mediaArray[l]
              /\ pending[l].media = Normalize(RawBatchOf(served[l])).media
              /\ Len(fetches[l]) = 1

\* every step of a link follows the order of the body, the fetch is issued
\* in the step that classifies, and the array is filled and the result
\* returned in the step in which the response arrives
C16_Steps ==
    \A l \in Links :
      /\ pc'[l] # pc[l] => <<pc[l], pc'[l]>> \in StepOrder
      /\ fetches'[l] # fetches[l]
           => pc[l] = "scripts" /\ pc'[l] \in {"fetchPost", "fetchStory"}
      /\ (\/ mediaArray'[l] # mediaArray[l]
          \/ (pending'[l].status = "fulfilled" /\ pending[l] = NoOutcome))
           => pc[l] \in {"fetchPost", "fetchStory"} /\ pc'[l] = "deferred"

\* C16: the steps of a link occur only in the order open, load, classify,
\* fetch, normalize, return, an error leading from any of them to failure:
\* the fetch is issued only after navigation and classification, the
\* normalization runs only once the fetch has returned, a result exists
\* only after normalization, and no step is skipped or repeated.
C16_StepsInOrder == []C16_Phases /\ [][C16_Steps]_vars

C16_AllStepsDone ==
    \E l \in Links :
      /\ pc[l] = "settled"
      /\ outcome[l].status = "fulfilled"
      /\ fetches[l] = <<"feed/reels_media">>
      /\ mediaArray[l] = outcome[l].media
      /\ Len(mediaArray[l]) = 2

\* the pages of link l that are open: returned by newPage and not yet closed
OpenPages(l) == opened[l] - closed[l]

\* a link whose outcome the runner has, has no open page
C17_ClosedWhenObserved ==
    \A l \in Links :
      (pc[l] = "settled" \/ outcome[l] # NoOutcome)
        => OpenPages(l) = 0 /\ closes[l] = opened[l]

\* the step that hands a link's outcome to the runner finds its page closed
C17_OutcomeAfterClose ==
    \A l \in Links :
      outcome'[l] # outcome[l]
        => /\ pc[l] = "deferred" /\ closes[l] = opened[l]
           /\ closed'[l] = opened'[l]

\* C17: for every link the close of its page is complete when its outcome,
\* success or failure, reaches the batch runner: no link is settled while
\* a page of its own is open.
C17_CloseBeforeOutcome == []C17_ClosedWhenObserved /\ [][C17_OutcomeAfterClose]_vars

C17_ObservedWhileOthersRun ==
    \E l, j \in Links :
      /\ pc[l] = "settled" /\ outcome[l].status = "rejected"
      /\ opened[l] = 1 /\ closed[l] = 1
      /\ pc[j] = "fetchPost" /\ OpenPages(j) = 1
      /\ runnerPc = "running"

RECURSIVE SumOpen(_)

\* the link pages open, over the links of S
SumOpen(S) ==
    IF S = {} THEN 0
    ELSE LET l == CHOOSE x \in S : TRUE IN OpenPages(l) + SumOpen(S \ {l})

\* C18: at most 4 link pages are open in any state, and none is open once
\* the batch has completed, nor when the main routine releases the browser.
C18_OpenPagesBounded ==
    /\ SumOpen(Links) <= 4
    /\ runnerPc = "completed" => SumOpen(Links) = 0
    /\ mainPc \in {"releasing", "ended"} => SumOpen(Links) = 0

C18_FourPagesOpen ==
    /\ SumOpen(Links) = 4
    /\ \E l \in Links : pc[l] = "queued"
    /\ \E l \in Links : pc[l] = "fetchStory"

\* the browser handle and its release, at each position of the main routine
C19_OneRelease ==
    /\ mainPc \in {"createGmail", "createPuppeteer", "acquire"}
         => browser = "none" /\ mainDefer = <<>> /\ releases = 0
    /\ browser = "none" => mainDefer = <<>> /\ releases = 0
    /\ browser # "none" => Len(mainDefer) = 1
    /\ mainPc \in {"login", "batch"}
         => browser \in {"connected", "launched"} /\ releases = 0
    /\ (mainPc \in {"releasing", "ended"} /\ browser # "none")
         => releases = 1 /\ browser = ReleaseOf(mainDefer[1])
    /\ releases <= 1
    /\ releases > 0 => \A l \in Links : pc[l] \in {"queued", "settled"}
    /\ (releases > 0 /\ runnerPc # "idle")
         => runnerPc = "completed" /\ \A l \in Links : pc[l] = "settled"

\* the release is called in the step that ends the main callback, and only there
C19_ReleaseAtEnd ==
    /\ releases' # releases
         => /\ mainPc \in {"login", "batch"} /\ mainPc' = "releasing"
            /\ releases' = releases + 1
    /\ (mainPc' \in {"releasing", "ended"} /\ mainPc \notin {"releasing", "ended"})
         => releases' = Len(mainDefer)

====
